---- MODULE Spec2Model ----
(***************************************************************************)
(* A model of the debounced, ordered relay queue of src/main.rs:           *)
(* MessageQueue::add_message, the drain worker spawned by                  *)
(* MessageQueue::start_processing_task, and                                *)
(* MessageQueue::send_audio_message with its identifier prediction.        *)
(* handle_update, which decides what is admitted, is part of the           *)
(* specification SpecGate.                                                 *)
(*                                                                         *)
(* Every await point of the source (a tokio Mutex lock, a sleep, a network *)
(* call) separates two steps of the task that executes it, so that any     *)
(* interleaving of the handler tasks and the worker the runtime can        *)
(* produce is a behaviour of the model.                                    *)
(*                                                                         *)
(* Time is discrete, counted in seconds, and kept relative to the present: *)
(* an Instant is represented by its age (the seconds elapsed since it was  *)
(* taken), a pending sleep by the seconds left until its deadline.  The    *)
(* step Tick lets one second pass: it ages every Instant and shortens      *)
(* every sleep.  The code compares an age with the quiet interval only, so *)
(* ages stop growing at QUIET_SECS.                                        *)
(*                                                                         *)
(* The variable scope holds the inputs of a run: the handler tasks that    *)
(* receive updates and the sets the keys, contents and platform            *)
(* identifiers are drawn from.  The specifications at the end share every  *)
(* action and differ in scope only.                                        *)
(***************************************************************************)
EXTENDS Integers, Sequences, FiniteSets, TLC

\* ---- program constants ----
\* Duration::from_secs(3): the quiet interval (main.rs:79 and :82)
QUIET_SECS == 3
\* Duration::from_millis(1000): the pacing delay, in seconds (main.rs:103)
PACE_SECS == 1
\* i32::MAX: last_message_id is an AtomicI32 (main.rs:165)
I32_MAX == 2147483647
\* i32::MIN
I32_MIN == -I32_MAX - 1

\* ---- bounds of the model ----
\* sequence keys (message_id) are 1..MaxKey
MaxKey == 2
\* identifiers the platform assigns to a sent message are 1..MaxId
MaxId == 2
\* number of worker slots: the code puts no limit on spawned tasks, the
\* model offers more slots than the single-worker discipline ever uses
MaxWorkers == 2

Keys == 1..MaxKey
\* FileId values (opaque content references)
Contents == {"A", "B"}
Ids == 1..MaxId
\* the webhook handler tasks that may run add_message concurrently
Handlers == {1, 2}
\* the chats (ChatId, an i64 kept as its decimal numeral) an update may
\* come from: 100 and 999
Chats == {<<"1", "0", "0">>, <<"9", "9", "9">>}
\* values of the secret ME_ID, as sequences of characters: "100", "abc",
\* "", " 100" and "9223372036854775808" (i64::MAX + 1)
MeIds ==
    {<<"1", "0", "0">>, <<"a", "b", "c">>, <<>>, <<" ", "1", "0", "0">>,
     <<"9", "2", "2", "3", "3", "7", "2", "0", "3", "6", "8", "5", "4", "7",
       "7", "5", "8", "0", "8">>}
\* message.text() of a text message: the command, and a text that only
\* starts with it
Texts == {"/start", "/start now"}
Slots == 1..MaxWorkers

VARIABLES
    messages,         \* MessageQueue.messages: Vec<QueuedMessage>
    last_received,    \* MessageQueue.last_received: Instant
    processing,       \* MessageQueue.processing: bool
    last_message_id,  \* ServerSecretsState.last_message_id: AtomicI32
    lock,             \* holder of each of the three tokio Mutexes
    handler,          \* per handler task: its position inside add_message
    worker,           \* per slot: the drain worker task spawned into it
    arrival,          \* history: keys now in the queue, in admission order
    last_admit,       \* history: the Instant of the most recent insertion
    scope             \* the inputs of this run: handlers, keys, contents, ids

vars == <<messages, last_received, processing, last_message_id, lock,
          handler, worker, arrival, last_admit, scope>>

Free == <<>>
HandlerTask(h) == <<"handler", h>>
WorkerTask(w) == <<"worker", w>>

\* QueuedMessage { audio_file_id, message_id }
QueuedMessage(audio_file_id, message_id) ==
    [audio_file_id |-> audio_file_id, message_id |-> message_id]

\* ---- pure helpers ----

\* slice::binary_search_by_key(&key, |m| m.message_id) over s[left+1 .. right]
\* (0-based half-open range left..right): Ok(pos) on a hit, Err(pos) with
\* the insertion point on a miss; pos is 0-based as in the source.
RECURSIVE binary_search_by_key(_, _, _, _)
binary_search_by_key(s, key, left, right) ==
    IF left >= right THEN [ok |-> FALSE, pos |-> left]
    ELSE LET mid == left + ((right - left) \div 2) IN
         IF s[mid + 1].message_id = key THEN [ok |-> TRUE, pos |-> mid]
         ELSE IF s[mid + 1].message_id < key
              THEN binary_search_by_key(s, key, mid + 1, right)
              ELSE binary_search_by_key(s, key, left, mid)

\* (mutant) Vec::push in place of Vec::insert
VecInsert_Push(s, pos, m) == Append(s, m)

\* Vec::insert(pos, m): shifts the elements from pos on one place right
VecInsert(s, pos, m) ==
    SubSeq(s, 1, pos) \o <<m>> \o SubSeq(s, pos + 1, Len(s))

\* (mutant) an insertion in place of the overwrite
VecSet_Insert(s, pos, m) ==
    SubSeq(s, 1, pos) \o <<m>> \o SubSeq(s, pos + 1, Len(s))

\* messages[pos] = m
VecSet(s, pos, m) == [s EXCEPT ![pos + 1] = m]

\* (mutant) the new entry always goes to the front
InsertOrReplace_Front(s, m) == <<m>> \o s

\* the match of add_message: overwrite on Ok(pos), insert on Err(pos)
InsertOrReplace(s, m) ==
    LET r == binary_search_by_key(s, m.message_id, 0, Len(s)) IN
    IF r.ok THEN VecSet(s, r.pos, m) ELSE VecInsert(s, r.pos, m)

\* Instant::now(): the Instant of age zero
InstantNow == 0

\* Instant::elapsed(): the age of the Instant
Elapsed(instant) == instant

\* one second later: the age of an Instant (the code compares ages with
\* QUIET_SECS only), and what is left of a sleep
Older(instant) == IF instant < QUIET_SECS THEN instant + 1 ELSE instant
Shorter(wake) == IF wake > 0 THEN wake - 1 ELSE 0

\* tokio::time::sleep(d): the time left until the deadline
Sleep(duration) == duration

\* (mutant) the comparison inverted: `continue` once the queue is quiet
StillGrowing_Inverted(time_since_last) == time_since_last >= QUIET_SECS

\* the debounce test of the worker: `continue` when it holds
StillGrowing(time_since_last) == time_since_last < QUIET_SECS

\* (mutant) a pacing sleep after the last item too
PaceAfter_Last(i, total_count) == i < total_count

\* the pacing test of the dispatch loop: sleep after item i of total_count
PaceAfter(i, total_count) == i < total_count - 1

\* (mutant) the increment forgotten
Predict_Same(last) == last

\* the predicted identifier: last_message_id.load() + 1, an i32 addition,
\* which wraps at i32::MAX in a build without overflow checks
Predict(last) == IF last = I32_MAX THEN I32_MIN ELSE last + 1

\* the same addition in a build with overflow checks (the dev profile):
\* "attempt to add with overflow", the worker task panics
PredictPanics(last) == last = I32_MAX

\* (mutant) the flag ignored
ShouldStart_Always(flag) == TRUE

\* the flag test of add_message: start a worker when none is marked active
ShouldStart(flag) == ~flag

\* (mutant) a copy of the queue is taken and the queue is left as it was
DrainAll_Clone(msgs) == [taken |-> msgs, left |-> msgs]

\* (mutant) the last entry is removed from the queue but not collected
DrainAll_DropLast(msgs) ==
    [taken |-> SubSeq(msgs, 1, Len(msgs) - 1), left |-> <<>>]

\* msgs.drain(..).collect::<Vec<_>>(): every entry, in order, is moved out
\* of the queue, which is left empty
DrainAll(msgs) == [taken |-> msgs, left |-> <<>>]

\* (mutant) the block around the insertion left out: the guard lives on
EndOfBlock_Held(holder) == holder

\* the `}` that ends the block of the insertion: the messages guard is
\* dropped
EndOfBlock(holder) == Free

\* (mutant) drop(msgs) left out: the guard lives on through the dispatch
DropMsgs_Forgotten(holder) == holder

\* drop(msgs) after the drain
DropMsgs(holder) == Free

KeysOf(s) == {s[j].message_id : j \in 1..Len(s)}
Without(s, k) == SelectSeq(s, LAMBDA x : x # k)

\* ---- task records ----

\* The locals of an add_message call: its arguments and t, the value of
\* Instant::now() on its way into last_received.  History: hit and old,
\* whether the insertion found its key in the queue and the content it
\* replaced.  Of the handle_update call around it: chat and text of the
\* message (chat <<>> when add_message is entered directly); history: reply the
\* bot.send_message call issued, deleted whether bot.delete_message was
\* issued, result how handle_update returned.
IdleHandler ==
    [pc |-> "idle", message_id |-> 0, audio_file_id |-> "", t |-> 0,
     hit |-> FALSE, old |-> "",
     chat |-> <<>>, text |-> "", reply |-> "", deleted |-> FALSE,
     result |-> ""]

\* The worker's locals: to_process is the iterator of the for loop (the
\* items not yet taken), msg the key of the item being sent.  History:
\* prev the key of the item sent before it, loaded the tracker value the
\* prediction was computed from, actual the identifier the platform
\* assigned, outcome how the last call of send_audio_message ended, edits
\* and edit_ref the edit_message_caption calls issued for msg, delays the
\* pacing sleeps of the pass, idle the age of the end of the last send,
\* arrived and quiet the admission order and the age of the last insertion
\* at the drain.
NoWorker ==
    [pc |-> "none", wake |-> 0, to_process |-> <<>>, total_count |-> 0,
     i |-> 0, msg |-> 0, prev |-> 0,
     loaded |-> 0, predicted_id |-> 0, actual |-> 0, outcome |-> "",
     edits |-> 0, edit_ref |-> 0, delays |-> 0, idle |-> 0,
     arrived |-> <<>>, quiet |-> 0]

Active(w) == worker[w].pc \notin {"none", "panicked"}
ActiveWorkers == {w \in Slots : Active(w)}

InitScope(sc) ==
    /\ messages = <<>>
    /\ last_received = InstantNow
    /\ processing = FALSE
    /\ last_message_id = 0
    /\ lock = [messages |-> Free, last_received |-> Free, processing |-> Free]
    /\ handler = [h \in Handlers |-> IdleHandler]
    /\ worker = [w \in Slots |-> NoWorker]
    /\ arrival = <<>>
    /\ last_admit = InstantNow
    /\ scope = sc

\* ---- the clock ----
Tick ==
    /\ last_received' = Older(last_received)
    /\ last_admit' = Older(last_admit)
    /\ handler' = [h \in Handlers |->
          IF handler[h].pc \in {"lock_last_received", "stamp"}
          THEN [handler[h] EXCEPT !.t = Older(@)]
          ELSE handler[h]]
    /\ worker' = [w \in Slots |->
          [worker[w] EXCEPT
              !.wake = Shorter(@),
              !.idle = IF worker[w].pc = "pacing" /\ @ < PACE_SECS
                       THEN @ + 1 ELSE @]]
    /\ UNCHANGED <<messages, processing, last_message_id, lock, arrival, scope>>

\* ---- handle_update, one handler task h ----

\* the decimal digits and their values
Digits ==
    [c \in {"0", "1", "2", "3", "4", "5", "6", "7", "8", "9"} |->
        CASE c = "0" -> 0 [] c = "1" -> 1 [] c = "2" -> 2 [] c = "3" -> 3
          [] c = "4" -> 4 [] c = "5" -> 5 [] c = "6" -> 6 [] c = "7" -> 7
          [] c = "8" -> 8 [] c = "9" -> 9]

\* An i64 is kept as its decimal numeral: the digits without leading
\* zeros, after "-" when it is negative.  The digits of the magnitudes of
\* i64::MAX and of i64::MIN:
I64MaxDigits ==
    <<"9", "2", "2", "3", "3", "7", "2", "0", "3", "6", "8", "5", "4", "7",
      "7", "5", "8", "0", "7">>
I64MinDigits ==
    <<"9", "2", "2", "3", "3", "7", "2", "0", "3", "6", "8", "5", "4", "7",
      "7", "5", "8", "0", "8">>

\* a sequence of digits without its leading zeros
RECURSIVE StripZeros(_)
StripZeros(digits) ==
    IF digits # <<>> /\ Head(digits) = "0"
    THEN StripZeros(Tail(digits))
    ELSE digits

\* a <= b for two sequences of digits of the same length
RECURSIVE DigitsLeq(_, _)
DigitsLeq(a, b) ==
    IF a = <<>> THEN TRUE
    ELSE IF Digits[Head(a)] < Digits[Head(b)] THEN TRUE
    ELSE IF Digits[Head(a)] > Digits[Head(b)] THEN FALSE
    ELSE DigitsLeq(Tail(a), Tail(b))

\* the checked multiply-and-add (or subtract) of the parse stays in the
\* range of i64: the magnitude, without leading zeros, is at most that of
\* i64::MAX, or of i64::MIN for a negative number
FitsI64(magnitude, negative) ==
    LET limit == IF negative THEN I64MinDigits ELSE I64MaxDigits
    IN \/ Len(magnitude) < Len(limit)
       \/ Len(magnitude) = Len(limit) /\ DigitsLeq(magnitude, limit)

\* str::parse::<i64>(): an optional sign and at least one digit, nothing
\* else, and a value in the range of i64; else an error
ParseI64(chars) ==
    LET signed == chars # <<>> /\ Head(chars) \in {"+", "-"}
        negative == signed /\ Head(chars) = "-"
        digits == IF signed THEN Tail(chars) ELSE chars
        magnitude == StripZeros(digits)
    IN IF \/ digits = <<>>
          \/ \E j \in 1..Len(digits) : digits[j] \notin DOMAIN Digits
          \/ ~FitsI64(magnitude, negative)
       THEN [ok |-> FALSE, id |-> <<>>]
       ELSE [ok |-> TRUE,
             id |-> IF magnitude = <<>> THEN <<"0">>
                    ELSE IF negative THEN <<"-">> \o magnitude
                    ELSE magnitude]

\* ChatId(secrets.me_id.parse()?): the configured chat, or the error that
\* ends handle_update
me_id == ParseI64(scope.me_id)

\* (mutant) the comparison with the configured chat left out
Authorized_Anyone(chat, me) == TRUE

\* the negation of message.chat.id != ChatId(me)
Authorized(chat, me) == chat = me

\* text == "/start"
IsStart(text) == text = "/start"

\* what add_message returns to: the call made by handle_update goes on to
\* its println! and to bot.delete_message(..), with no await in between
AddReturn(rec) ==
    IF rec.chat = <<>>
    THEN IdleHandler
    ELSE [IdleHandler EXCEPT !.pc = "delete_wait", !.chat = rec.chat,
                             !.text = rec.text, !.deleted = TRUE]

\* handle_update up to its first await, for an UpdateKind::Message from
\* chat with the given text ("" when message.text() is None) and audio
\* ("" when message.audio() is None).  When the secret ME_ID does not
\* parse, the `?` returns the error before anything else is done.
HandleUpdate(h, chat, text, audio_file_id, message_id) ==
    /\ h \in scope.handlers
    /\ handler[h].pc = "idle"
    /\ LET rec == [IdleHandler EXCEPT !.chat = chat, !.text = text,
                                      !.message_id = message_id,
                                      !.audio_file_id = audio_file_id]
       IN handler' = [handler EXCEPT ![h] =
             IF ~me_id.ok
             THEN [rec EXCEPT !.pc = "done", !.result = "err"]
             ELSE IF ~Authorized(chat, me_id.id)
             THEN [rec EXCEPT !.pc = "reject_wait", !.reply = "reject"]
             ELSE IF IsStart(text)
             THEN [rec EXCEPT !.pc = "start_wait", !.reply = "welcome"]
             ELSE IF audio_file_id # ""
             THEN [rec EXCEPT !.pc = "lock_messages"]
             ELSE [rec EXCEPT !.pc = "delete_wait", !.deleted = TRUE]]
    /\ UNCHANGED <<messages, last_received, processing, last_message_id, lock,
                   worker, arrival, last_admit, scope>>

\* bot.send_message(..).await? of the rejection or of the welcome, then
\* return Ok(()): handle_update returns whatever the outcome of the call
GateReplyReturns(h, ok) ==
    /\ handler[h].pc \in {"reject_wait", "start_wait"}
    /\ handler' = [handler EXCEPT
          ![h].pc = "done",
          ![h].result = IF ok THEN "ok" ELSE "err"]
    /\ UNCHANGED <<messages, last_received, processing, last_message_id, lock,
                   worker, arrival, last_admit, scope>>

\* bot.delete_message(..).await? returns; Ok(()) or the error
GateDeleteReturns(h, ok) ==
    /\ handler[h].pc = "delete_wait"
    /\ handler' = [handler EXCEPT
          ![h].pc = "done",
          ![h].result = IF ok THEN "ok" ELSE "err"]
    /\ UNCHANGED <<messages, last_received, processing, last_message_id, lock,
                   worker, arrival, last_admit, scope>>

\* the task spawned by webhook_handler ends
GateFinish(h) ==
    /\ handler[h].pc = "done"
    /\ handler' = [handler EXCEPT ![h] = IdleHandler]
    /\ UNCHANGED <<messages, last_received, processing, last_message_id, lock,
                   worker, arrival, last_admit, scope>>

\* ---- add_message, one handler task h ----

\* handle_update, in a task of its own, calls
\* add_message(audio.file.id, message.id.0, ..)
AddMessageCall(h, audio_file_id, message_id) ==
    /\ h \in scope.handlers
    /\ handler[h].pc = "idle"
    /\ handler' = [handler EXCEPT ![h] =
          [IdleHandler EXCEPT !.pc = "lock_messages",
                              !.message_id = message_id,
                              !.audio_file_id = audio_file_id]]
    /\ UNCHANGED <<messages, last_received, processing, last_message_id, lock,
                   worker, arrival, last_admit, scope>>

\* self.messages.lock().await
AddLockMessages(h) ==
    /\ handler[h].pc = "lock_messages"
    /\ lock.messages = Free
    /\ lock' = [lock EXCEPT !.messages = HandlerTask(h)]
    /\ handler' = [handler EXCEPT ![h].pc = "insert"]
    /\ UNCHANGED <<messages, last_received, processing, last_message_id,
                   worker, arrival, last_admit, scope>>

\* The binary search and the insert or overwrite; the guard is dropped at
\* the end of the block.
AddInsert(h) ==
    /\ handler[h].pc = "insert"
    /\ lock.messages = HandlerTask(h)
    /\ LET m == QueuedMessage(handler[h].audio_file_id, handler[h].message_id)
           r == binary_search_by_key(messages, m.message_id, 0, Len(messages))
       IN /\ messages' = InsertOrReplace(messages, m)
          /\ handler' = [handler EXCEPT
                ![h].pc = "clock",
                ![h].hit = r.ok,
                ![h].old = IF r.ok THEN messages[r.pos + 1].audio_file_id
                           ELSE ""]
          /\ arrival' = Append(Without(arrival, m.message_id), m.message_id)
    /\ last_admit' = InstantNow
    /\ lock' = [lock EXCEPT !.messages = EndOfBlock(lock.messages)]
    /\ UNCHANGED <<last_received, processing, last_message_id, worker, scope>>

\* `*self.last_received.lock().await = Instant::now()` evaluates the
\* assigned value first: the clock is read before the lock is awaited.
\* The task runs on a multi-thread runtime, so that other tasks take steps,
\* and time passes, between the release of the messages guard and this
\* read.
AddClock(h) ==
    /\ handler[h].pc = "clock"
    /\ handler' = [handler EXCEPT ![h].pc = "lock_last_received",
                                  ![h].t = InstantNow,
                                  ![h].hit = FALSE, ![h].old = ""]
    /\ UNCHANGED <<messages, last_received, processing, last_message_id, lock,
                   worker, arrival, last_admit, scope>>

\* self.last_received.lock().await
AddLockLastReceived(h) ==
    /\ handler[h].pc = "lock_last_received"
    /\ lock.last_received = Free
    /\ lock' = [lock EXCEPT !.last_received = HandlerTask(h)]
    /\ handler' = [handler EXCEPT ![h].pc = "stamp"]
    /\ UNCHANGED <<messages, last_received, processing, last_message_id,
                   worker, arrival, last_admit, scope>>

\* the store of the value read by AddInsert; the guard is dropped at the
\* end of the statement
AddStamp(h) ==
    /\ handler[h].pc = "stamp"
    /\ lock.last_received = HandlerTask(h)
    /\ last_received' = handler[h].t
    /\ lock' = [lock EXCEPT !.last_received = Free]
    /\ handler' = [handler EXCEPT ![h].pc = "lock_processing", ![h].t = 0]
    /\ UNCHANGED <<messages, processing, last_message_id, worker,
                   arrival, last_admit, scope>>

AddLockProcessing(h) ==
    /\ handler[h].pc = "lock_processing"
    /\ lock.processing = Free
    /\ lock' = [lock EXCEPT !.processing = HandlerTask(h)]
    /\ handler' = [handler EXCEPT ![h].pc = "check"]
    /\ UNCHANGED <<messages, last_received, processing, last_message_id,
                   worker, arrival, last_admit, scope>>

\* if !*processing { *processing = true; drop(processing); .. }: the guard
\* is released on both branches before anything else is awaited
AddCheck(h) ==
    /\ handler[h].pc = "check"
    /\ lock.processing = HandlerTask(h)
    /\ IF ShouldStart(processing)
       THEN /\ processing' = TRUE
            /\ handler' = [handler EXCEPT ![h].pc = "spawn"]
       ELSE /\ processing' = processing
            /\ handler' = [handler EXCEPT ![h] = AddReturn(handler[h])]
    /\ lock' = [lock EXCEPT !.processing = Free]
    /\ UNCHANGED <<messages, last_received, last_message_id, worker,
                   arrival, last_admit, scope>>

\* start_processing_task: tokio::spawn of the worker, whose first statement
\* is sleep(3 s).  A sleep that starts late and one that wakes late are the
\* same behaviour, so the sleep starts with the spawn.
StartProcessingTask(h) ==
    /\ handler[h].pc = "spawn"
    /\ \E w \in Slots :
          /\ worker[w].pc = "none"
          /\ \A v \in Slots : v < w => worker[v].pc # "none"
          /\ worker' = [worker EXCEPT ![w] =
                [NoWorker EXCEPT !.pc = "sleeping",
                                 !.wake = Sleep(QUIET_SECS)]]
    /\ handler' = [handler EXCEPT ![h] = AddReturn(handler[h])]
    /\ UNCHANGED <<messages, last_received, processing, last_message_id, lock,
                   arrival, last_admit, scope>>

\* ---- the drain worker in slot w ----

\* sleep(Duration::from_secs(3)) returns: not before its deadline
WorkerWake(w) ==
    /\ worker[w].pc = "sleeping"
    /\ worker[w].wake = 0
    /\ worker' = [worker EXCEPT ![w].pc = "lock_last_received", ![w].wake = 0]
    /\ UNCHANGED <<messages, last_received, processing, last_message_id, lock,
                   handler, arrival, last_admit, scope>>

WorkerLockLastReceived(w) ==
    /\ worker[w].pc = "lock_last_received"
    /\ lock.last_received = Free
    /\ lock' = [lock EXCEPT !.last_received = WorkerTask(w)]
    /\ worker' = [worker EXCEPT ![w].pc = "elapsed"]
    /\ UNCHANGED <<messages, last_received, processing, last_message_id,
                   handler, arrival, last_admit, scope>>

\* time_since_last = last_received.elapsed(); the guard is a temporary of
\* the statement.  `continue` goes back to the sleep.
WorkerElapsed(w) ==
    /\ worker[w].pc = "elapsed"
    /\ lock.last_received = WorkerTask(w)
    /\ lock' = [lock EXCEPT !.last_received = Free]
    /\ IF StillGrowing(Elapsed(last_received))
       THEN worker' = [worker EXCEPT ![w].pc = "sleeping",
                                     ![w].wake = Sleep(QUIET_SECS)]
       ELSE worker' = [worker EXCEPT ![w].pc = "lock_messages"]
    /\ UNCHANGED <<messages, last_received, processing, last_message_id,
                   handler, arrival, last_admit, scope>>

WorkerLockMessages(w) ==
    /\ worker[w].pc = "lock_messages"
    /\ lock.messages = Free
    /\ lock' = [lock EXCEPT !.messages = WorkerTask(w)]
    /\ worker' = [worker EXCEPT ![w].pc = "drain"]
    /\ UNCHANGED <<messages, last_received, processing, last_message_id,
                   handler, arrival, last_admit, scope>>

\* if msgs.is_empty() { break }; to_process = msgs.drain(..).collect();
\* drop(msgs).  On the break the guard is dropped on leaving the loop body.
WorkerDrain(w) ==
    /\ worker[w].pc = "drain"
    /\ lock.messages = WorkerTask(w)
    /\ IF messages = <<>>
       THEN /\ worker' = [worker EXCEPT ![w].pc = "lock_processing"]
            /\ lock' = [lock EXCEPT !.messages = Free]
            /\ UNCHANGED <<messages, arrival>>
       ELSE /\ worker' = [worker EXCEPT
                  ![w].pc = "send",
                  ![w].to_process = DrainAll(messages).taken,
                  ![w].total_count = Len(DrainAll(messages).taken),
                  ![w].i = 0,
                  ![w].arrived = arrival,
                  ![w].quiet = Elapsed(last_admit)]
            /\ messages' = DrainAll(messages).left
            /\ lock' = [lock EXCEPT !.messages = DropMsgs(lock.messages)]
            /\ arrival' = <<>>
    /\ UNCHANGED <<last_received, processing, last_message_id, handler,
                   last_admit, scope>>

WorkerLockProcessing(w) ==
    /\ worker[w].pc = "lock_processing"
    /\ lock.processing = Free
    /\ lock' = [lock EXCEPT !.processing = WorkerTask(w)]
    /\ worker' = [worker EXCEPT ![w].pc = "reset"]
    /\ UNCHANGED <<messages, last_received, processing, last_message_id,
                   handler, arrival, last_admit, scope>>

\* *processing_flag.lock().await = false; the task ends
WorkerReset(w) ==
    /\ worker[w].pc = "reset"
    /\ lock.processing = WorkerTask(w)
    /\ processing' = FALSE
    /\ lock' = [lock EXCEPT !.processing = Free]
    /\ worker' = [worker EXCEPT ![w] = NoWorker]
    /\ UNCHANGED <<messages, last_received, last_message_id, handler,
                   arrival, last_admit, scope>>

\* ---- send_audio_message, called by the worker for to_process[i] ----

\* sent_message.id.0 == predicted_id
PredictionCorrect(actual, predicted_id) == actual = predicted_id

\* the value of last_message_id when the mismatch branch is left: the store
\* of the actual identifier follows the `?` of the edit_message_caption call
TrackerAfterEdit(last, actual, edit_ok) == IF edit_ok THEN actual ELSE last

\* (mutant) the loop left after one item
NextItem_Break(w, rec) == [rec EXCEPT !.pc = "lock_processing"]

\* the head of the for loop over to_process.into_iter().enumerate(): the
\* (mutant) the `break` after the for loop left out: the worker goes round
\* its outer loop again
LoopNext_Again(rec) ==
    IF rec.to_process = <<>>
    THEN [rec EXCEPT !.pc = "sleeping", !.wake = Sleep(QUIET_SECS)]
    ELSE [rec EXCEPT !.pc = "send", !.i = rec.i + 1]

\* next item with the next index, or the end of the loop, the `break` and
\* the reset of the flag when the iterator is exhausted
LoopNext(rec) ==
    IF rec.to_process = <<>>
    THEN [rec EXCEPT !.pc = "lock_processing"]
    ELSE [rec EXCEPT !.pc = "send", !.i = rec.i + 1]

\* the end of the body of the for loop: the pacing sleep when another item
\* follows, else straight back to the head of the loop
NextItem(w, rec) ==
    IF PaceAfter(rec.i, rec.total_count)
    THEN [rec EXCEPT !.pc = "pacing", !.wake = Sleep(PACE_SECS),
                     !.delays = rec.delays + 1, !.idle = 0]
    ELSE LoopNext(rec)

\* the loop takes the next item of to_process.into_iter();
\* predicted_id = last_message_id.load() + 1, then bot.send_audio(..) with
\* the caption that references predicted_id is issued.  At i32::MAX the
\* addition wraps, or, in a build with overflow checks, panics: the task
\* spawned by start_processing_task ends there, with the rest of the batch
\* dropped and the flag left as it is.
WorkerSend(w) ==
    /\ worker[w].pc = "send"
    /\ \/ worker' = [worker EXCEPT
             ![w].pc = "send_wait",
             ![w].loaded = last_message_id,
             ![w].predicted_id = Predict(last_message_id),
             ![w].actual = 0,
             ![w].edits = 0,
             ![w].edit_ref = 0,
             ![w].outcome = "",
             ![w].quiet = 0,
             ![w].prev = worker[w].msg,
             ![w].msg = Head(worker[w].to_process).message_id,
             ![w].to_process = Tail(worker[w].to_process)]
       \/ /\ PredictPanics(last_message_id)
          /\ worker' = [worker EXCEPT ![w] =
                [NoWorker EXCEPT !.pc = "panicked"]]
    /\ UNCHANGED <<messages, last_received, processing, last_message_id, lock,
                   handler, arrival, last_admit, scope>>

\* the send fails (the `?` of channel_id.parse() or of the call): the
\* caller logs the error
WorkerSendFails(w) ==
    /\ worker[w].pc = "send_wait"
    /\ worker' = [worker EXCEPT ![w] =
          NextItem(w, [worker[w] EXCEPT !.outcome = "send_err"])]
    /\ UNCHANGED <<messages, last_received, processing, last_message_id, lock,
                   handler, arrival, last_admit, scope>>

\* the send returns the message the platform created, with identifier
\* actual: the tracker is stored on a correct prediction, else the caption
\* is edited to reference the actual identifier
WorkerSendReturns(w, actual) ==
    /\ worker[w].pc = "send_wait"
    /\ IF PredictionCorrect(actual, worker[w].predicted_id)
       THEN /\ last_message_id' = worker[w].predicted_id
            /\ worker' = [worker EXCEPT ![w] =
                  NextItem(w, [worker[w] EXCEPT !.outcome = "ok",
                                                !.actual = actual])]
       ELSE /\ last_message_id' = last_message_id
            /\ worker' = [worker EXCEPT ![w].pc = "edit_wait",
                                        ![w].actual = actual,
                                        ![w].edits = worker[w].edits + 1,
                                        ![w].edit_ref = actual]
    /\ UNCHANGED <<messages, last_received, processing, lock, handler,
                   arrival, last_admit, scope>>

\* edit_message_caption returns, with success or with an error
WorkerEditReturns(w, edit_ok) ==
    /\ worker[w].pc = "edit_wait"
    /\ last_message_id' =
          TrackerAfterEdit(last_message_id, worker[w].actual, edit_ok)
    /\ worker' = [worker EXCEPT ![w] =
          NextItem(w, [worker[w] EXCEPT
              !.outcome = IF edit_ok THEN "fixed" ELSE "edit_err"])]
    /\ UNCHANGED <<messages, last_received, processing, lock, handler,
                   arrival, last_admit, scope>>

\* sleep(Duration::from_millis(1000)) returns, not before its deadline
WorkerPaceWake(w) ==
    /\ worker[w].pc = "pacing"
    /\ worker[w].wake = 0
    /\ worker' = [worker EXCEPT ![w] = LoopNext(worker[w])]
    /\ UNCHANGED <<messages, last_received, processing, last_message_id, lock,
                   handler, arrival, last_admit, scope>>

\* ---- the system ----

HandlerStep(h) ==
    \/ \E f \in scope.contents, k \in scope.keys : AddMessageCall(h, f, k)
    \/ AddLockMessages(h)
    \/ AddInsert(h)
    \/ AddClock(h)
    \/ AddLockLastReceived(h)
    \/ AddStamp(h)
    \/ AddLockProcessing(h)
    \/ AddCheck(h)
    \/ StartProcessingTask(h)

\* the steps of a handler task that runs handle_update
GateStep(h) ==
    \/ \E c \in scope.chats, x \in scope.texts, k \in scope.keys :
          HandleUpdate(h, c, x, "", k)
    \/ \E c \in scope.chats, f \in scope.contents, k \in scope.keys :
          HandleUpdate(h, c, "", f, k)
    \/ \E ok \in BOOLEAN : GateReplyReturns(h, ok)
    \/ \E ok \in BOOLEAN : GateDeleteReturns(h, ok)
    \/ GateFinish(h)
    \/ AddLockMessages(h)
    \/ AddInsert(h)
    \/ AddClock(h)
    \/ AddLockLastReceived(h)
    \/ AddStamp(h)
    \/ AddLockProcessing(h)
    \/ AddCheck(h)
    \/ StartProcessingTask(h)

WorkerStep(w) ==
    \/ WorkerWake(w)
    \/ WorkerLockLastReceived(w)
    \/ WorkerElapsed(w)
    \/ WorkerLockMessages(w)
    \/ WorkerDrain(w)
    \/ WorkerSend(w)
    \/ WorkerSendFails(w)
    \/ \E actual \in scope.ids : WorkerSendReturns(w, actual)
    \/ \E edit_ok \in BOOLEAN : WorkerEditReturns(w, edit_ok)
    \/ WorkerPaceWake(w)
    \/ WorkerLockProcessing(w)
    \/ WorkerReset(w)

Next ==
    \/ Tick
    \/ \E h \in Handlers : HandlerStep(h)
    \/ \E w \in Slots : WorkerStep(w)

\* ---- specifications ----
\* The inputs of a run: which handler tasks receive updates, and the keys,
\* contents and platform identifiers they and the platform draw from.
Scope(handlers, keys, contents, ids) ==
    [handlers |-> handlers, keys |-> keys, contents |-> contents, ids |-> ids]

\* one handler task at a time, every key, every platform identifier
Init == InitScope(Scope({1}, Keys, {"A"}, Ids))
Spec == Init /\ [][Next]_vars

\* one handler task, three keys, one platform identifier
InitOrder == InitScope(Scope({1}, {1, 2, 3}, {"A"}, {1}))
SpecOrder == InitOrder /\ [][Next]_vars

\* concurrent handler tasks, one platform identifier
InitRace == InitScope(Scope(Handlers, {1, 2}, {"A"}, {1}))
SpecRace == InitRace /\ [][Next]_vars

\* one handler task, two contents for every key
InitContent == InitScope(Scope({1}, {1, 2}, Contents, {1}))
SpecContent == InitContent /\ [][Next]_vars

\* one handler task; the platform assigns the largest identifier
InitWrap == InitScope(Scope({1}, {1, 2}, {"A"}, {I32_MAX}))
SpecWrap == InitWrap /\ [][Next]_vars

\* One handler task, one platform identifier, under the scheduling of the
\* runtime: time passes, and a worker task that can take a step (a sleep
\* past its deadline, a lock that is free, a call that returns) takes one.
InitLive == InitScope(Scope({1}, {1, 2}, {"A"}, {1}))
SpecLive ==
    /\ InitLive
    /\ [][Next]_vars
    /\ WF_vars(Tick)
    /\ \A w \in Slots : WF_vars(WorkerStep(w))

\* The inputs of a run in which the handler tasks run handle_update: the
\* chats and texts of the messages as well.
GateScope(handlers, keys, contents, ids, chats, texts, me) ==
    [handlers |-> handlers, keys |-> keys, contents |-> contents,
     ids |-> ids, chats |-> chats, texts |-> texts, me_id |-> me]

\* one handler task running handle_update on text and audio messages of
\* both chats, under each value of the secret ME_ID
NextGate ==
    \/ Tick
    \/ \E h \in Handlers : GateStep(h)
    \/ \E w \in Slots : WorkerStep(w)
InitGate ==
    \E me \in MeIds :
        InitScope(GateScope({1}, {1, 2}, {"A"}, {1}, Chats, Texts, me))
SpecGate == InitGate /\ [][NextGate]_vars

\* ---- properties ----

StrictlyAscending(s) ==
    \A j \in 1..Len(s) : \A k \in 1..Len(s) :
        j < k => s[j].message_id < s[k].message_id
Range(s) == {s[j] : j \in 1..Len(s)}
Spawning == {h \in Handlers : handler[h].pc = "spawn"}
Dispatching(w) == worker[w].pc \in {"send", "send_wait", "edit_wait", "pacing"}
Leaving(w) == worker[w].pc \in {"lock_processing", "reset"}

\* C1: at most one worker is active or about to be spawned at any time;
\* the flag is true while it is, and the flag is true only when the
\* add_message call that set it started one worker, which runs, is about
\* to be spawned, or has panicked: concurrent admissions to an idle queue
\* start exactly one.
C1_SingleWorker ==
    /\ Cardinality(ActiveWorkers) + Cardinality(Spawning) <= 1
    /\ (Cardinality(ActiveWorkers) + Cardinality(Spawning) = 1) => processing
    /\ processing =>
          \/ Cardinality(ActiveWorkers) + Cardinality(Spawning) = 1
          \/ \E w \in Slots : worker[w].pc = "panicked"

\* two admissions race for the flag while the worker started by an earlier
\* one is running
C1_Witness ==
    /\ Cardinality(ActiveWorkers) = 1
    /\ \E h \in Handlers : \E g \in Handlers \ {h} :
          /\ handler[h].pc = "check"
          /\ handler[g].pc = "lock_processing"

\* C2: the queue is strictly ascending by message_id, so no key occurs twice
C2_SortedUnique == StrictlyAscending(messages)

\* the queue holds three entries that were admitted in the key order
\* 2, 1, 3, while a batch drained before them is being sent
C2_Witness ==
    /\ Len(messages) = 3
    /\ arrival = <<2, 1, 3>>
    /\ \E w \in Slots : Dispatching(w)

\* C3: when a worker drains, the last insertion into the queue is at least
\* the quiet interval old, so every item of the batch was admitted at least
\* that long before
C3_Debounce ==
    \A w \in Slots :
        (worker[w].pc = "send" /\ worker[w].i = 0)
            => worker[w].quiet >= QUIET_SECS

\* C4: a drained batch holds the keys admitted since the last drain in
\* ascending order, whatever the order of their admission, and the sends of
\* a pass are issued in ascending key order
C4_Ordering ==
    \A w \in Slots :
        /\ (worker[w].pc = "send" /\ worker[w].i = 0) =>
              /\ StrictlyAscending(worker[w].to_process)
              /\ KeysOf(worker[w].to_process) = Range(worker[w].arrived)
              /\ Len(worker[w].to_process) = Len(worker[w].arrived)
        /\ Dispatching(w) =>
              /\ StrictlyAscending(worker[w].to_process)
              /\ \A k \in KeysOf(worker[w].to_process) : worker[w].msg < k
              /\ worker[w].prev < worker[w].msg \/ worker[w].msg = 0

\* the third send of a pass is in flight for a batch whose items were
\* admitted in the key order 2, 1, 3
C4_Witness ==
    \E w \in Slots :
        /\ worker[w].pc = "send_wait"
        /\ worker[w].i = 2
        /\ worker[w].arrived = <<2, 1, 3>>
        /\ worker[w].prev = 2
        /\ worker[w].msg = 3

\* C5: an insertion that finds its key in the queue keeps the length of the
\* queue, replaces that entry by the new message and leaves every other
\* entry as it was
C5_Overwrite ==
    [][\A h \in Handlers :
          (/\ handler[h].pc = "insert"
           /\ handler'[h].pc # "insert"
           /\ handler[h].message_id \in KeysOf(messages))
          => /\ Len(messages') = Len(messages)
             /\ \A j \in 1..Len(messages) :
                   messages'[j] =
                      IF messages[j].message_id = handler[h].message_id
                      THEN QueuedMessage(handler[h].audio_file_id,
                                         handler[h].message_id)
                      ELSE messages[j]
             /\ Cardinality({j \in 1..Len(messages') :
                   messages'[j].message_id = handler[h].message_id}) = 1
      ]_vars

\* a key was admitted again with another content before any drain: the
\* queue holds the new content for it, next to another entry
C5_Witness ==
    \E h \in Handlers :
        /\ handler[h].pc = "clock"
        /\ handler[h].hit
        /\ handler[h].old # handler[h].audio_file_id
        /\ Len(messages) = 2
        /\ \E j \in 1..Len(messages) :
              messages[j] = QueuedMessage(handler[h].audio_file_id,
                                          handler[h].message_id)

\* C6: when the platform assigns T+1 to a send made with tracker value T,
\* no edit_message_caption call is issued and the tracker becomes T+1
C6_PredictionSuccess ==
    \A w \in Slots :
        (/\ worker[w].actual # 0
         /\ worker[w].loaded < I32_MAX
         /\ worker[w].actual = worker[w].loaded + 1)
            => /\ worker[w].edits = 0
               /\ last_message_id = worker[w].loaded + 1

\* a send made with a tracker value other than the initial one was assigned
\* the next identifier
C6_Witness ==
    \E w \in Slots :
        /\ worker[w].outcome = "ok"
        /\ worker[w].loaded > 0
        /\ worker[w].actual = worker[w].loaded + 1

\* C7: when the platform assigns X # T+1 to a send made with tracker value
\* T, send_audio_message ends with exactly one edit_message_caption call
\* issued, referencing X, and with the tracker set to X
C7_PredictionCorrection ==
    \A w \in Slots :
        (worker[w].outcome \in {"ok", "fixed", "edit_err"}
         /\ worker[w].actual # worker[w].loaded + 1)
            => /\ worker[w].edits = 1
               /\ worker[w].edit_ref = worker[w].actual
               /\ last_message_id = worker[w].actual

\* C8: when the edit_message_caption call fails it was issued once, and the
\* tracker holds the actual identifier, so the next prediction is actual + 1
C8_EditFailure ==
    \A w \in Slots :
        worker[w].outcome = "edit_err" =>
            /\ worker[w].edits = 1
            /\ last_message_id = worker[w].actual
            /\ Predict(last_message_id) = worker[w].actual + 1

\* C9: after a failed send the tracker holds the value it had before, the
\* item is neither in the rest of the batch nor put back into the queue, and
\* the worker leaves the loop only after the last item of the batch
C9_SendFailure ==
    /\ KeysOf(messages) = Range(arrival)
    /\ \A w \in Slots :
          worker[w].outcome = "send_err" =>
              /\ last_message_id = worker[w].loaded
              /\ worker[w].msg \notin KeysOf(worker[w].to_process)
              /\ Len(worker[w].to_process) =
                    worker[w].total_count - worker[w].i - 1
                    + (IF worker[w].pc = "send" THEN 1 ELSE 0)
              /\ Leaving(w) => worker[w].i = worker[w].total_count - 1

\* the send of the first item failed and the worker is about to send the
\* second
C9_Witness ==
    \E w \in Slots :
        /\ worker[w].pc = "send"
        /\ worker[w].i = 1
        /\ worker[w].outcome = "send_err"
        /\ worker[w].msg \notin KeysOf(messages)

\* C10: a pass over k items sleeps the pacing delay once between every two
\* consecutive sends, k-1 times in all and not after the last send, and
\* every send but the first starts at least the pacing delay after the end
\* of the send before it
C10_Pacing ==
    \A w \in Slots :
        /\ worker[w].pc = "pacing" => worker[w].delays = worker[w].i + 1
        /\ worker[w].pc \in {"send", "send_wait", "edit_wait"} =>
              worker[w].delays = worker[w].i
        /\ (Leaving(w) /\ worker[w].total_count > 0) =>
              worker[w].delays = worker[w].total_count - 1
        /\ (worker[w].pc \in {"send", "send_wait", "edit_wait"}
            /\ worker[w].i > 0) => worker[w].idle >= PACE_SECS

\* a pass over more than one item has ended
C10_Witness ==
    \E w \in Slots :
        /\ Leaving(w)
        /\ worker[w].total_count >= 2
        /\ worker[w].delays = worker[w].total_count - 1


\* C11: when the secret ME_ID parses, handle_update for a message of a
\* chat other than the configured one issues the rejection reply to that
\* chat, waits for it and returns; no step of the call changes the queue,
\* last_received, the processing flag, the tracker or a lock, and the call
\* never issues bot.delete_message.  When the secret does not parse, no
\* chat is the configured one: the call returns the error at once, with
\* the same state left unchanged and nothing deleted.
C11_Authorization ==
    [][\A h \in Handlers :
          (/\ handler'[h].chat # <<>>
           /\ ~(me_id.ok /\ handler'[h].chat = me_id.id)
           /\ handler'[h] # handler[h])
          => /\ UNCHANGED <<messages, last_received, processing,
                            last_message_id, lock>>
             /\ ~handler'[h].deleted
             /\ IF me_id.ok
                THEN /\ handler'[h].pc \in {"reject_wait", "done"}
                     /\ handler'[h].reply = "reject"
                ELSE /\ handler'[h].pc = "done"
                     /\ handler'[h].result = "err"
                     /\ handler'[h].reply = ""]_vars

\* an audio message of another chat than the configured one was answered
\* and handle_update has returned, while the queue holds an item and a
\* worker is active
C11_Witness ==
    \E h \in Handlers :
        /\ handler[h].pc = "done"
        /\ me_id.ok
        /\ handler[h].chat = <<"9", "9", "9">>
        /\ handler[h].reply = "reject"
        /\ handler[h].audio_file_id # ""
        /\ handler[h].result = "ok"
        /\ messages # <<>>
        /\ ActiveWorkers # {}

\* C12: when handle_update returns Ok(()) for a message of the configured
\* chat, bot.delete_message was issued; for the text "/start" the welcome
\* reply was issued as well.
C12_CommandBypass ==
    \A h \in Handlers :
        (/\ handler[h].pc = "done"
         /\ me_id.ok
         /\ handler[h].chat = me_id.id
         /\ handler[h].result = "ok")
        => /\ handler[h].deleted
           /\ handler[h].text = "/start" => handler[h].reply = "welcome"

\* the workers with a send_audio or edit_message_caption call in flight
InFlight == {w \in Slots : worker[w].pc \in {"send_wait", "edit_wait"}}

\* C13: at most one worker has a send_audio or edit_message_caption call
\* in flight, and while it has, the tracker still holds the value its
\* prediction was computed from: no other call of send_audio_message has
\* read or written the tracker in between.
C13_SerialSends ==
    /\ Cardinality(InFlight) <= 1
    /\ \A w \in InFlight :
          /\ worker[w].loaded = last_message_id
          /\ worker[w].predicted_id = Predict(worker[w].loaded)

\* the correction edit of the second item of a batch is in flight while
\* one add_message call holds the messages lock and another is about to
\* test the flag
C13_Witness ==
    \E w \in Slots :
        /\ worker[w].pc = "edit_wait"
        /\ worker[w].i >= 1
        /\ \E h \in Handlers : handler[h].pc = "insert"
        /\ \E h \in Handlers : handler[h].pc = "check"

\* C14: every step keeps every entry of the queue, unless it is the
\* insertion of an add_message call for the entry's key, which replaces the
\* entry, or the drain of a worker, which hands the whole queue, in order,
\* to the worker's dispatch loop; and the dispatch loop takes the batch
\* item by item from its head and is left only when the batch is used up.
C14_NoLoss ==
    [][/\ \/ \A j \in 1..Len(messages) :
                \/ messages[j] \in Range(messages')
                \/ \E h \in Handlers :
                      /\ handler[h].pc = "insert"
                      /\ handler'[h].pc # "insert"
                      /\ handler[h].message_id = messages[j].message_id
                      /\ messages[j].message_id \in KeysOf(messages')
          \/ \E w \in Slots :
                /\ worker[w].pc = "drain"
                /\ worker'[w].pc = "send"
                /\ worker'[w].to_process = messages
       /\ \A w \in Slots :
             /\ (Dispatching(w) /\ worker'[w].to_process # worker[w].to_process)
                => /\ worker'[w].pc = "send_wait"
                   /\ worker'[w].to_process = Tail(worker[w].to_process)
                   /\ worker'[w].msg = Head(worker[w].to_process).message_id
             /\ (Dispatching(w) /\ Leaving(w)')
                => worker[w].to_process = <<>>]_vars

\* an item admitted while the worker is in the second send of its dispatch
\* pass is in the queue
C14_Witness ==
    \E w \in Slots :
        /\ worker[w].pc = "send_wait"
        /\ worker[w].i >= 1
        /\ messages # <<>>
        /\ \A h \in Handlers : handler[h].pc = "idle"

\* C15: the store of an add_message call to last_received never moves
\* last_received backwards: the instant it stores is no older than the
\* one it replaces.
C15_LastArrival ==
    [][\A h \in Handlers :
          (handler[h].pc = "stamp" /\ handler'[h].pc # "stamp")
          => Elapsed(last_received') <= Elapsed(last_received)]_vars

\* C16: a worker that has drained never goes back to the quiet wait or to
\* a drain, and sends no more items than its snapshot held; a worker ends
\* only through the reset, which leaves the flag false, on the empty-queue
\* exit as after the dispatch; a worker starts only from an add_message
\* call that found the flag false and set it; and while no worker is
\* active and no add_message call is running, the queue keeps its entries
\* and no worker starts.
C16_OnePass ==
    [][/\ \A w \in Slots :
             /\ (Dispatching(w) \/ Leaving(w))
                => /\ worker'[w].pc \in {"send", "send_wait", "edit_wait",
                                         "pacing", "lock_processing",
                                         "reset", "none"}
                   /\ worker'[w].pc # "none" =>
                         worker'[w].arrived = worker[w].arrived
             /\ Dispatching(w)'
                => /\ worker'[w].i < worker'[w].total_count
                   /\ worker'[w].total_count = Len(worker'[w].arrived)
                   /\ worker'[w].msg \in {0} \cup Range(worker'[w].arrived)
             /\ (Active(w) /\ ~Active(w)')
                => worker[w].pc = "reset" /\ ~processing'
             /\ (~Active(w) /\ Active(w)')
                => processing /\ \E h \in Handlers : handler[h].pc = "spawn"
       /\ (ActiveWorkers = {} /\ \A h \in Handlers : handler[h].pc = "idle")
          => /\ messages' = messages
             /\ ActiveWorkers' = {}
             /\ processing' = processing]_vars

\* the worker has ended, no add_message call is running, the flag is
\* false, and an item admitted during the dispatch pass has been in the
\* queue for the whole quiet period
C16_Witness ==
    /\ ActiveWorkers = {}
    /\ \A h \in Handlers : handler[h].pc = "idle"
    /\ ~processing
    /\ messages # <<>>
    /\ last_message_id > 0
    /\ last_admit = QUIET_SECS

\* the locks of the queue whose guard the task holds
Holds(task) == {l \in DOMAIN lock : lock[l] = task}

\* C17: a worker in its quiet wait, in a pacing delay or with a send_audio
\* or edit_message_caption call in flight holds none of the three locks,
\* and neither does an add_message call that is spawning the worker.
C17_NoLockAcrossWork ==
    /\ \A w \in Slots :
          worker[w].pc \in {"sleeping", "pacing", "send_wait", "edit_wait"}
          => Holds(WorkerTask(w)) = {}
    /\ \A h \in Handlers :
          handler[h].pc = "spawn" => Holds(HandlerTask(h)) = {}

\* a send is in flight while an add_message call holds the messages lock
C17_Witness ==
    \E w \in Slots : \E h \in Handlers :
        /\ worker[w].pc = "send_wait"
        /\ lock.messages = HandlerTask(h)

\* the lock a task is waiting for, if any
Awaits(pc) ==
    IF pc = "lock_messages" THEN {"messages"}
    ELSE IF pc = "lock_last_received" THEN {"last_received"}
    ELSE IF pc = "lock_processing" THEN {"processing"}
    ELSE {}

\* C18: a task that is acquiring one of the three locks holds none of
\* them, no task holds two, and the holder of a lock is at the statement
\* that ends with the release of the guard, which is enabled; so whenever
\* a task waits for a lock, the lock is free or its holder can take a step.
C18_DeadlockFree ==
    /\ \A h \in Handlers :
          /\ Cardinality(Holds(HandlerTask(h))) <= 1
          /\ Awaits(handler[h].pc) # {} => Holds(HandlerTask(h)) = {}
          /\ Holds(HandlerTask(h)) # {} => ENABLED HandlerStep(h)
    /\ \A w \in Slots :
          /\ Cardinality(Holds(WorkerTask(w))) <= 1
          /\ Awaits(worker[w].pc) # {} => Holds(WorkerTask(w)) = {}
          /\ Holds(WorkerTask(w)) # {} => ENABLED WorkerStep(w)

\* both add_message calls and the worker are waiting for or holding a lock
C18_Witness ==
    \E w \in Slots :
        /\ worker[w].pc = "lock_messages"
        /\ handler[1].pc = "insert"
        /\ handler[2].pc = "lock_messages"

\* C19: the queue holds exactly the keys inserted since the last drain,
\* each once, so no entry of a drained batch is still in the queue; and in
\* a dispatch pass the items not yet taken are distinct, come after the
\* item being sent, and are as many as the batch had less the sends
\* already attempted: each entry of the batch is sent at most once.
C19_AtMostOnce ==
    /\ KeysOf(messages) = Range(arrival)
    /\ Len(messages) = Len(arrival)
    /\ \A w \in Slots :
          /\ Dispatching(w) =>
                /\ StrictlyAscending(worker[w].to_process)
                /\ \A k \in KeysOf(worker[w].to_process) : worker[w].msg < k
                /\ Len(worker[w].to_process) =
                      IF worker[w].pc = "send"
                      THEN worker[w].total_count - worker[w].i
                      ELSE worker[w].total_count - worker[w].i - 1
          /\ Leaving(w) => worker[w].to_process = <<>>

\* the key of the item being sent was admitted again after the drain and
\* is in the queue
C19_Witness ==
    \E w \in Slots :
        /\ worker[w].pc = "send_wait"
        /\ worker[w].i >= 1
        /\ worker[w].msg \in KeysOf(messages)

\* no add_message call is running
NoAdmission == \A h \in Handlers : handler[h].pc = "idle"

\* C20: the flag is true only while a worker is active or is being
\* spawned: it never stays true with no worker running.
C20_FlagHasWorker ==
    processing => (ActiveWorkers # {} \/ Spawning # {})

\* In every run, under the scheduling of the runtime, in which the
\* add_message calls come to an end, from some point on no worker is
\* active and the flag is false: the worker leaves its quiet wait, goes
\* through its batch whatever the outcomes of the sends, and resets the
\* flag.
WorkerTerminates ==
    <>[]NoAdmission => <>[](ActiveWorkers = {} /\ ~processing)
====
